---- MODULE Spec2Model ----
(***************************************************************************)
(* DinoBot (src/dino.py): one synchronous loop that captures a screen      *)
(* region, crops the play lane, detects obstacle candidates, decides       *)
(* whether to press the jump key, composites the processed crop back into  *)
(* the frame, shows it and polls the quit key.                             *)
(*                                                                         *)
(* Images are sequences of rows, a row is a sequence of BGR pixels.        *)
(* Python's 0-based half-open slices are translated to 1-based SubSeq.     *)
(* The raster is coarse (FrameH x FrameW cells); bounding boxes, areas and *)
(* the drawing offsets keep the program's numbers.                         *)
(***************************************************************************)
EXTENDS Integers, Sequences, FiniteSets, TLC

VARIABLES
    pc,            \* position of run(): the step about to execute
    cfg,           \* crop_params and jump_distance fixed by __init__
    img_game,      \* the frame of this iteration (run: img_game)
    img_crop,      \* run: img_crop
    img_pre,       \* run: img_pre (binary mask)
    img_contours,  \* run: img_contours / img_contours_with_logic
    con_found,     \* run: con_found, the candidate sequence
    key,           \* run: key, the last result of cv2.waitKey
    windows,       \* display backend: "none", "open", "destroyed"
    presses,       \* number of pyautogui.press("space") calls so far
    iter,          \* number of quit polls that have returned
    captured,      \* history: the frame as grabbed in this iteration
    rejected,      \* history: areas of the shapes the find step just done left out
    nearest,       \* history: <<left_most_contour[0]>> of this iteration
    marker,        \* history: arguments of the cv2.line call of this iteration
    trace,         \* history: the steps completed in this iteration, in order
    history,       \* history: per decided iteration, whether the jump condition held
    failedAt       \* history: the step that raised, or "none"

vars == <<pc, cfg, img_game, img_crop, img_pre, img_contours, con_found, key,
          windows, presses, iter, captured, rejected, nearest, marker, trace,
          history, failedAt>>

----------------------------------------------------------------------------
(* Bounds of the model *)

FrameH == 2        \* rows of the captured frame
FrameW == 3        \* columns of the captured frame
MaxX == 2          \* largest bounding-box x the detector reports
MaxContours == 2   \* most shapes cv2 extracts from one frame
MaxIter == 2       \* most iterations of the loop explored

(* Program constants *)

minArea == 100           \* cvzone.findContours(..., minArea=100, ...)
thresh == 127            \* cv2.threshold(gray_frame, 127, ...)
maxval == 255            \* cv2.threshold(..., 255, THRESH_BINARY_INV)
markerOffset == 10       \* bbox[1] + 10
markerThickness == 10    \* cv2.line(..., 10)
ordQ == 113              \* ord('q')
NoKey == -1              \* cv2.waitKey returns -1 when no key was pressed
SpaceKey == 32           \* another key code waitKey can return

Light == <<255, 255, 255>>      \* page background
Dark == <<83, 83, 83>>          \* obstacle pixels
markerColor == <<0, 200, 0>>    \* cv2.line colour
contourColor == <<255, 0, 0>>   \* cvzone.findContours default c
fpsColor == <<255, 0, 255>>     \* cvzone FPS overlay

JumpDistances == {1, 2}
Areas == {99, 100, 101}
Keys == {NoKey, ordQ, SpaceKey}

----------------------------------------------------------------------------
(* Helpers *)

Min(a, b) == IF a <= b THEN a ELSE b
Max(a, b) == IF a >= b THEN a ELSE b

SeqsUpTo(S, n) == UNION {[1..k -> S] : k \in 0..n}

\* Python s[a:b] for 0 <= a, 0 <= b: both ends are clamped to len(s).
PySlice(s, a, b) == SubSeq(s, Min(a, Len(s)) + 1, Min(b, Len(s)))

CropFromTop(img, row_start, row_end, col_start) ==
    LET rows == SubSeq(img, 1, IF row_end <= Len(img) THEN row_end ELSE Len(img))
    IN  [i \in 1..Len(rows) |->
            SubSeq(rows[i], (IF col_start <= Len(rows[i]) THEN col_start ELSE Len(rows[i])) + 1,
                   Len(rows[i]))]

\* numpy img[row_start:row_end, col_start:]
CropOf(img, row_start, row_end, col_start) ==
    LET rows == PySlice(img, row_start, row_end)
    IN  [i \in 1..Len(rows) |-> PySlice(rows[i], col_start, Len(rows[i]))]

\* numpy: img.size == 0
Empty(img) == Len(img) = 0 \/ Len(img[1]) = 0

\* A cv2 drawing call clipped to the image: cells with 0-based row in r0..r1
\* and 0-based column in c0..c1 take the colour.
Paint(img, r0, r1, c0, c1, color) ==
    [r \in 1..Len(img) |->
        [c \in 1..Len(img[r]) |->
            IF (r - 1) \in r0..r1 /\ (c - 1) \in c0..c1 THEN color ELSE img[r][c]]]

----------------------------------------------------------------------------
(* Inputs *)

\* A BGRA pixel as mss delivers it.
Opaque(p) == <<p[1], p[2], p[3], 255>>

\* Screenshots the capture backend can return: the background with at most
\* one dark cell.
Screenshots ==
    {[r \in 1..FrameH |-> [c \in 1..FrameW |-> Opaque(Light)]]} \cup
    {[r \in 1..FrameH |-> [c \in 1..FrameW |->
          IF r = dr /\ c = dc THEN Opaque(Dark) ELSE Opaque(Light)]] :
       dr \in 1..FrameH, dc \in 1..FrameW}

\* A shape as cv2 extracts it: bbox = [x, y, w, h] and area.  The detector is
\* an external black box: it may report any of these shapes.
Shapes ==
    {[bbox |-> <<x, y, 1, 1>>, area |-> a] : x \in 0..MaxX, y \in {0, 1}, a \in Areas}

\* The crop configured by default, scaled to the raster (rows 100:140 of 200,
\* columns 110: of 650).
DefaultWindow == [row_start |-> FrameH - 1, row_end |-> FrameH, col_start |-> 1]

\* Any crop window, including windows that reach past the frame.
Windows ==
    [row_start : {0, 1, FrameH}, row_end : {FrameH - 1, FrameH, FrameH + 1},
     col_start : {0, 1, FrameW, FrameW + 1}]

Config(w, jd) ==
    [row_start |-> w.row_start, row_end |-> w.row_end, col_start |-> w.col_start,
     jump_distance |-> jd]

----------------------------------------------------------------------------
(* The pipeline steps of DinoBot *)

\* cv2.cvtColor(img, COLOR_BGRA2BGR): drops the alpha channel.
BGRA2BGR(img) ==
    [r \in 1..Len(img) |-> [c \in 1..Len(img[r]) |-> SubSeq(img[r][c], 1, 3)]]

\* _capture_screen_region, given what sct.grab returned.
_capture_screen_region(screenshot) == BGRA2BGR(screenshot)

\* cv2.cvtColor(img, COLOR_BGR2GRAY) of one pixel.
Gray(p) == (114 * p[1] + 587 * p[2] + 299 * p[3]) \div 1000

\* cv2.threshold(gray, 127, 255, THRESH_BINARY_INV) of one pixel.
ThresholdInv(g) == IF g > thresh THEN 0 ELSE maxval

Near(img, r, c, d) ==
    {<<r2, c2>> \in (1..Len(img)) \X (1..Len(img[1])) :
        r2 \in (r - d)..(r + d) /\ c2 \in (c - d)..(c + d)}

\* cv2.Canny on a binary mask: the cells where the mask changes value.
Canny(mask) ==
    [r \in 1..Len(mask) |-> [c \in 1..Len(mask[r]) |->
        IF \E q \in Near(mask, r, c, 1) : mask[q[1]][q[2]] # mask[r][c]
        THEN maxval ELSE 0]]

\* cv2.dilate with a 5x5 kernel, one iteration.
Dilate(mask) ==
    [r \in 1..Len(mask) |-> [c \in 1..Len(mask[r]) |->
        IF \E q \in Near(mask, r, c, 2) : mask[q[1]][q[2]] = maxval
        THEN maxval ELSE 0]]

\* _preprocess_image: gray, inverse threshold, Canny, two dilations.
_preprocess_image(crop) ==
    LET binary_frame ==
            [r \in 1..Len(crop) |-> [c \in 1..Len(crop[r]) |->
                ThresholdInv(Gray(crop[r][c]))]]
    IN  Dilate(Dilate(Canny(binary_frame)))

\* A mask with no foreground cell: cv2.findContours extracts nothing from it.
NoForeground(mask) ==
    \A r \in 1..Len(mask) : \A c \in 1..Len(mask[r]) : mask[r][c] = 0

RECURSIVE DrawShapes(_, _)
DrawShapes(img, cons) ==
    IF cons = <<>> THEN img
    ELSE LET b == cons[1].bbox
         IN  DrawShapes(Paint(img, b[2], b[2] + b[4], b[1], b[1] + b[3], contourColor),
                        Tail(cons))

\* The loop of cvzone.findContours over the extracted shapes: those with
\* area > minArea are kept, in order.
RECURSIVE KeepLarger(_, _)
KeepLarger(cnts, min_area) ==
    IF cnts = <<>> THEN <<>>
    ELSE IF cnts[1].area > min_area
         THEN <<cnts[1]>> \o KeepLarger(Tail(cnts), min_area)
         ELSE KeepLarger(Tail(cnts), min_area)

\* sorted(conFound, key=lambda x: x["area"], reverse=True): stable, largest
\* area first.
RECURSIVE InsertByArea(_, _)
InsertByArea(s, e) ==
    IF s = <<>> THEN <<e>>
    ELSE IF e.area > s[Len(s)].area
         THEN Append(InsertByArea(SubSeq(s, 1, Len(s) - 1), e), s[Len(s)])
         ELSE Append(s, e)

RECURSIVE SortedByArea(_)
SortedByArea(con) ==
    IF con = <<>> THEN <<>>
    ELSE InsertByArea(SortedByArea(SubSeq(con, 1, Len(con) - 1)), con[Len(con)])

\* cvzone.findContours(img, imgPre, minArea, filter=None) given the shapes cv2
\* extracted from imgPre: keeps the shapes with area > minArea, draws them on
\* a copy of img and returns them sorted by area, largest first.
findContours(img, cnts, min_area) ==
    [img |-> DrawShapes(img, KeepLarger(cnts, min_area)),
     con |-> SortedByArea(KeepLarger(cnts, min_area))]

_find_obstacles_small(img, cnts) == findContours(img, cnts, 10)

\* _find_obstacles: cvzone.findContours with minArea=100.
_find_obstacles(img, cnts) == findContours(img, cnts, minArea)

RECURSIVE InsertTiesFirst(_, _)
InsertTiesFirst(s, e) ==
    IF s = <<>> THEN <<e>>
    ELSE IF e.bbox[1] <= s[Len(s)].bbox[1]
         THEN Append(InsertTiesFirst(SubSeq(s, 1, Len(s) - 1), e), s[Len(s)])
         ELSE Append(s, e)

RECURSIVE SortedUnstable(_)
SortedUnstable(con) ==
    IF con = <<>> THEN <<>>
    ELSE InsertTiesFirst(SortedUnstable(SubSeq(con, 1, Len(con) - 1)), con[Len(con)])

\* Python's sorted is stable: an element goes after the elements whose key
\* is not larger.
RECURSIVE InsertByX(_, _)
InsertByX(s, e) ==
    IF s = <<>> THEN <<e>>
    ELSE IF e.bbox[1] < s[Len(s)].bbox[1]
         THEN Append(InsertByX(SubSeq(s, 1, Len(s) - 1), e), s[Len(s)])
         ELSE Append(s, e)

RECURSIVE SortedByX(_)
SortedByX(con) ==
    IF con = <<>> THEN <<>>
    ELSE InsertByX(SortedByX(SubSeq(con, 1, Len(con) - 1)), con[Len(con)])

\* sorted(con_found, key=lambda x: x["bbox"][0])
left_most_contour(con) == SortedByX(con)

MarkerLineAtTop(first, jd) ==
    [from |-> <<jd, first.bbox[2]>>, to |-> <<first.bbox[1], first.bbox[2]>>]

\* The end points of the cv2.line call: (jump_distance, y + 10), (x, y + 10).
MarkerLine(first, jd) ==
    [from |-> <<jd, first.bbox[2] + markerOffset>>,
     to   |-> <<first.bbox[1], first.bbox[2] + markerOffset>>]

\* cv2.line(img, p1, p2, color, thickness) for a horizontal line.
DrawLine(img, line, color, thickness) ==
    Paint(img,
          line.from[2] - (thickness \div 2), line.from[2] + (thickness \div 2),
          Min(line.from[1], line.to[1]) - (thickness \div 2),
          Max(line.from[1], line.to[1]) + (thickness \div 2),
          color)

ShouldJumpInclusive(first, jd) == first.bbox[1] <= jd

ShouldJumpDebounced(first, jd) ==
    first.bbox[1] < jd /\ (history = <<>> \/ ~history[Len(history)])

\* left_most_contour[0]["bbox"][0] < self.jump_distance
ShouldJump(first, jd) == first.bbox[1] < jd

\* _apply_game_logic: the image returned, the line drawn (if any), the
\* candidate used (if any) and whether press("space") is called.
_apply_game_logic(img, con, jd) ==
    IF con = <<>>
    THEN [img |-> img, line |-> <<>>, first |-> <<>>, press |-> FALSE]
    ELSE LET first == left_most_contour(con)[1]
             line == MarkerLine(first, jd)
         IN  [img   |-> DrawLine(img, line, markerColor, markerThickness),
              line  |-> <<line>>,
              first |-> <<first>>,
              press |-> ShouldJump(first, jd)]

CompositeAtOrigin(frame, patch, row_start, row_end, col_start) ==
    LET r0 == Min(row_start, Len(frame))
    IN  [r \in 1..Len(frame) |->
            IF r > r0 /\ r <= r0 + Len(patch)
            THEN patch[r - r0] \o SubSeq(frame[r], Len(patch[r - r0]) + 1, Len(frame[r]))
            ELSE frame[r]]

\* img_game[row_start:row_end, col_start:] = patch
Composite(frame, patch, row_start, row_end, col_start) ==
    LET r0 == Min(row_start, Len(frame))
    IN  [r \in 1..Len(frame) |->
            IF r > r0 /\ r <= r0 + Len(patch)
            THEN SubSeq(frame[r], 1, Min(col_start, Len(frame[r]))) \o patch[r - r0]
            ELSE frame[r]]

\* fps_reader.update(img): draws the frame-rate text near the top-left corner.
FpsUpdate(img) == Paint(img, 0, 0, 0, 0, fpsColor)

IsQuitAnyKey(k) == k # NoKey

\* key == ord('q')
IsQuit(k) == k = ordQ

RunOrderShowFirst ==
    <<"capture", "crop", "preprocess", "find", "composite", "fps", "show",
      "decide", "poll">>

\* The statements of the loop body of run(), in program order.
RunOrder ==
    <<"capture", "crop", "preprocess", "find", "decide", "composite", "fps",
      "show", "poll">>

Successor(step) ==
    LET i == CHOOSE j \in 1..Len(RunOrder) : RunOrder[j] = step
    IN  IF i < Len(RunOrder) THEN RunOrder[i + 1] ELSE RunOrder[1]

RaiseAndContinue(step) == RunOrder[1]

\* No statement of run() is inside a try block: an exception leaves run().
Raise(step) == "failed"

----------------------------------------------------------------------------
(* Vocabulary of the properties, defined without the program's operators *)

Xs(con) == {con[i].bbox[1] : i \in 1..Len(con)}

\* The smallest bounding-box x of a non-empty candidate sequence.
MinX(con) == CHOOSE m \in Xs(con) : \A x \in Xs(con) : m <= x

\* The first position, in the order received, of a candidate with that x.
FirstMinIndex(con) ==
    CHOOSE i \in 1..Len(con) :
        /\ con[i].bbox[1] = MinX(con)
        /\ \A j \in 1..(i - 1) : con[j].bbox[1] # MinX(con)

\* The jump condition of a frame: a candidate exists and the nearest is
\* strictly left of jump_distance.
NearestBelow(con, jd) == con # <<>> /\ MinX(con) < jd

Has(s, e) == \E i \in 1..Len(s) : s[i] = e

Count(s, e) == Cardinality({i \in 1..Len(s) : s[i] = e})

IsPrefix(s, t) == Len(s) <= Len(t) /\ s = SubSeq(t, 1, Len(s))

----------------------------------------------------------------------------
(* State machine of run() *)

Blank ==
    /\ img_game = <<>> /\ img_crop = <<>> /\ img_pre = <<>> /\ img_contours = <<>>
    /\ con_found = <<>> /\ key = NoKey /\ windows = "none"
    /\ presses = 0 /\ iter = 0
    /\ captured = <<>> /\ rejected = {} /\ nearest = <<>> /\ marker = <<>>
    /\ trace = <<>> /\ history = <<>> /\ failedAt = "none"
    /\ pc = RunOrder[1]

\* DinoBot() with the default crop window, then run().
Init ==
    /\ \E jd \in JumpDistances : cfg = Config(DefaultWindow, jd)
    /\ Blank

\* DinoBot(...) with any crop window, then run().
InitFrame ==
    /\ \E w \in Windows : cfg = Config(w, 1)
    /\ Blank

Fail(step) ==
    /\ pc = step
    /\ failedAt = "none"
    /\ pc' = Raise(step)
    /\ failedAt' = step

\* img_game = self._capture_screen_region()
Capture ==
    /\ pc = "capture"
    /\ iter < MaxIter
    /\ \E screenshot \in Screenshots :
          /\ img_game' = _capture_screen_region(screenshot)
          /\ captured' = _capture_screen_region(screenshot)
    /\ rejected' = {} /\ nearest' = <<>> /\ marker' = <<>>
    /\ trace' = <<"capture">>
    /\ pc' = Successor("capture")
    /\ UNCHANGED <<cfg, img_crop, img_pre, img_contours, con_found, key, windows,
                   presses, iter, history, failedAt>>

\* sct.grab raises.
CaptureFail ==
    /\ Fail("capture")
    /\ iter < MaxIter
    /\ UNCHANGED <<cfg, img_game, img_crop, img_pre, img_contours, con_found, key,
                   windows, presses, iter, captured, rejected, nearest, marker,
                   trace, history>>

\* img_crop = img_game[cp["row_start"]:cp["row_end"], cp["col_start"]:]
Crop ==
    /\ pc = "crop"
    /\ img_crop' = CropOf(img_game, cfg.row_start, cfg.row_end, cfg.col_start)
    /\ trace' = Append(trace, "crop")
    /\ pc' = Successor("crop")
    /\ UNCHANGED <<cfg, img_game, img_pre, img_contours, con_found, key, windows,
                   presses, iter, captured, rejected, nearest, marker, history,
                   failedAt>>

\* img_pre = self._preprocess_image(img_crop)
Preprocess ==
    /\ pc = "preprocess"
    /\ ~Empty(img_crop)
    /\ img_pre' = _preprocess_image(img_crop)
    /\ trace' = Append(trace, "preprocess")
    /\ pc' = Successor("preprocess")
    /\ UNCHANGED <<cfg, img_game, img_crop, img_contours, con_found, key, windows,
                   presses, iter, captured, rejected, nearest, marker, history,
                   failedAt>>

\* cv2.cvtColor raises: always on an empty crop, possibly otherwise.
PreprocessFail ==
    /\ Fail("preprocess")
    /\ UNCHANGED <<cfg, img_game, img_crop, img_pre, img_contours, con_found, key,
                   windows, presses, iter, captured, rejected, nearest, marker,
                   trace, history>>

\* img_contours, con_found = self._find_obstacles(img_crop.copy(), img_pre)
FindObstacles ==
    /\ pc = "find"
    /\ \E cnts \in SeqsUpTo(Shapes, MaxContours) :
          /\ NoForeground(img_pre) => cnts = <<>>
          /\ \E out \in {_find_obstacles(img_crop, cnts)} :
                /\ img_contours' = out.img
                /\ con_found' = out.con
                /\ rejected' = {cnts[i].area : i \in 1..Len(cnts)} \
                                {out.con[i].area : i \in 1..Len(out.con)}
    /\ trace' = Append(trace, "find")
    /\ pc' = Successor("find")
    /\ UNCHANGED <<cfg, img_game, img_crop, img_pre, key, windows, presses, iter,
                   captured, nearest, marker, history, failedAt>>

\* cvzone.findContours raises.
FindObstaclesFail ==
    /\ Fail("find")
    /\ UNCHANGED <<cfg, img_game, img_crop, img_pre, img_contours, con_found, key,
                   windows, presses, iter, captured, rejected, nearest, marker,
                   trace, history>>

\* img_contours_with_logic = self._apply_game_logic(img_contours, con_found)
ApplyGameLogic ==
    /\ pc = "decide"
    /\ LET out == _apply_game_logic(img_contours, con_found, cfg.jump_distance)
       IN  /\ img_contours' = out.img
           /\ marker' = out.line
           /\ nearest' = out.first
           /\ presses' = IF out.press THEN presses + 1 ELSE presses
           /\ trace' = IF out.press THEN trace \o <<"decide", "press">>
                                    ELSE Append(trace, "decide")
           /\ history' = Append(history, NearestBelow(con_found, cfg.jump_distance))
    /\ rejected' = {}
    /\ pc' = Successor("decide")
    /\ UNCHANGED <<cfg, img_game, img_crop, img_pre, con_found, key, windows, iter,
                   captured, failedAt>>

\* pyautogui.press raises (its fail-safe check precedes the key events): the
\* line is drawn, no key is pressed.
ApplyGameLogicFail ==
    /\ Fail("decide")
    /\ LET out == _apply_game_logic(img_contours, con_found, cfg.jump_distance)
       IN  /\ out.press
           /\ img_contours' = out.img
           /\ marker' = out.line
           /\ nearest' = out.first
    /\ UNCHANGED <<cfg, img_game, img_crop, img_pre, con_found, key, windows,
                   presses, iter, captured, rejected, trace, history>>

\* img_game[cp["row_start"]:cp["row_end"], cp["col_start"]:] = img_contours_with_logic
CompositeCrop ==
    /\ pc = "composite"
    /\ img_game' = Composite(img_game, img_contours,
                             cfg.row_start, cfg.row_end, cfg.col_start)
    /\ trace' = Append(trace, "composite")
    /\ pc' = Successor("composite")
    /\ UNCHANGED <<cfg, img_crop, img_pre, img_contours, con_found, key, windows,
                   presses, iter, captured, rejected, nearest, marker, history,
                   failedAt>>

\* fps, img_game = self.fps_reader.update(img_game)
Fps ==
    /\ pc = "fps"
    /\ img_game' = FpsUpdate(img_game)
    /\ trace' = Append(trace, "fps")
    /\ pc' = Successor("fps")
    /\ UNCHANGED <<cfg, img_crop, img_pre, img_contours, con_found, key, windows,
                   presses, iter, captured, rejected, nearest, marker, history,
                   failedAt>>

\* cv2.imshow("DinoBot Game Window", img_game)
Show ==
    /\ pc = "show"
    /\ windows' = "open"
    /\ trace' = Append(trace, "show")
    /\ pc' = Successor("show")
    /\ UNCHANGED <<cfg, img_game, img_crop, img_pre, img_contours, con_found, key,
                   presses, iter, captured, rejected, nearest, marker, history,
                   failedAt>>

\* cv2.imshow raises (no display).
ShowFail ==
    /\ Fail("show")
    /\ UNCHANGED <<cfg, img_game, img_crop, img_pre, img_contours, con_found, key,
                   windows, presses, iter, captured, rejected, nearest, marker,
                   trace, history>>

\* key = cv2.waitKey(1); if key == ord('q'): break.  The locals of the
\* iteration are rebound before they are read again.
Poll ==
    /\ pc = "poll"
    /\ \E k \in Keys :
          /\ key' = k
          /\ pc' = IF IsQuit(k) THEN "destroy" ELSE Successor("poll")
    /\ iter' = iter + 1
    /\ trace' = Append(trace, "poll")
    /\ img_game' = <<>> /\ img_crop' = <<>> /\ img_pre' = <<>>
    /\ img_contours' = <<>> /\ con_found' = <<>>
    /\ captured' = <<>> /\ nearest' = <<>> /\ marker' = <<>>
    /\ UNCHANGED <<cfg, windows, presses, rejected, history, failedAt>>

\* cv2.destroyAllWindows()
DestroyAllWindows ==
    /\ pc = "destroy"
    /\ windows' = "destroyed"
    /\ pc' = "done"
    /\ UNCHANGED <<cfg, img_game, img_crop, img_pre, img_contours, con_found, key,
                   presses, iter, captured, rejected, nearest, marker, trace,
                   history, failedAt>>

Next ==
    \/ Capture \/ CaptureFail
    \/ Crop
    \/ Preprocess \/ PreprocessFail
    \/ FindObstacles \/ FindObstaclesFail
    \/ ApplyGameLogic \/ ApplyGameLogicFail
    \/ CompositeCrop
    \/ Fps
    \/ Show \/ ShowFail
    \/ Poll
    \/ DestroyAllWindows

\* One pass of the frame pipeline, from the capture to the composited frame.
NextFrame ==
    \/ Capture
    \/ Crop
    \/ Preprocess \/ PreprocessFail
    \/ FindObstacles
    \/ ApplyGameLogic
    \/ CompositeCrop

Spec == Init /\ [][Next]_vars

SpecFrame == InitFrame /\ [][NextFrame]_vars

----------------------------------------------------------------------------
(* Properties *)

\* The decision step of this iteration has returned and its inputs are
\* still in place.
Decided == Has(trace, "decide") /\ ~Has(trace, "poll")

ExpectedNoJump ==
    <<"capture", "crop", "preprocess", "find", "decide", "composite", "fps",
      "show", "poll">>

ExpectedJump ==
    <<"capture", "crop", "preprocess", "find", "decide", "press", "composite",
      "fps", "show", "poll">>

\* C1: one call of the decision step presses the jump key exactly once if the
\* candidate sequence is non-empty and its minimum bounding-box x is strictly
\* below jump_distance, and not at all otherwise (equal x, larger x, or no
\* candidate).
C1_JumpIffNearestBelow ==
    Decided =>
        Count(trace, "press") =
            (IF con_found # <<>> /\ MinX(con_found) < cfg.jump_distance THEN 1 ELSE 0)

\* C1 witness: the nearest candidate sits exactly at jump_distance and the
\* decision step returned without a press.
C1_Witness ==
    /\ Decided
    /\ con_found # <<>>
    /\ MinX(con_found) = cfg.jump_distance
    /\ ~Has(trace, "press")

\* C2: for a non-empty candidate sequence the candidate used is the one with
\* minimum bounding-box x, the first such in the order received; the marker
\* and the threshold test are both taken from it.
C2_NearestIsFirstMinimum ==
    (Decided /\ con_found # <<>>) =>
        LET c == con_found[FirstMinIndex(con_found)]
        IN  /\ nearest = <<c>>
            /\ Len(marker) = 1
            /\ marker[1].to[1] = c.bbox[1]
            /\ marker[1].to[2] = c.bbox[2] + 10
            /\ Has(trace, "press") <=> (c.bbox[1] < cfg.jump_distance)

\* C2 witness: two different candidates share the minimum x and the one
\* received first was the one used.
C2_Witness ==
    /\ Decided
    /\ Len(con_found) >= 2
    /\ \E i, j \in 1..Len(con_found) :
          /\ i < j
          /\ con_found[i].bbox[1] = MinX(con_found)
          /\ con_found[j].bbox[1] = MinX(con_found)
          /\ con_found[i] # con_found[j]
          /\ nearest = <<con_found[i]>>

\* C3: no debounce: the number of presses so far equals the number of decided
\* iterations whose jump condition held, whatever earlier iterations did, and
\* between iterations every iteration polled has been decided.
C3_PressPerQualifyingIteration ==
    /\ presses = Count(history, TRUE)
    /\ (pc \in {"capture", "destroy", "done"} => Len(history) = iter)

\* C3 witness: two consecutive iterations both met the condition and both
\* pressed.
C3_Witness ==
    /\ Len(history) >= 2
    /\ history[1] /\ history[2]
    /\ presses >= 2

\* C4: the marker line is drawn exactly when the candidate sequence is
\* non-empty, jump or not, from (jump_distance, y + 10) to (x, y + 10) with
\* (x, y) the top-left corner of the nearest candidate; with no candidate the
\* image comes back as the detector returned it, without a line.
C4_MarkerIffCandidates ==
    Decided =>
        IF con_found = <<>>
        THEN marker = <<>> /\ img_contours = img_crop
        ELSE LET c == con_found[FirstMinIndex(con_found)]
             IN  marker = <<[from |-> <<cfg.jump_distance, c.bbox[2] + 10>>,
                             to   |-> <<c.bbox[1], c.bbox[2] + 10>>]>>

\* C4 witness: a line was drawn in an iteration that did not jump.
C4_Witness ==
    /\ Decided
    /\ marker # <<>>
    /\ ~Has(trace, "press")

\* C5: the loop is left only on a poll that returned the quit key; then the
\* windows are destroyed and nothing else happens; any other poll result
\* leads to the next capture.
C5_QuitOnlyOnQuitKey ==
    /\ [](pc \in {"destroy", "done"} => key = 113)
    /\ [](pc = "done" => windows = "destroyed")
    /\ [][(pc = "poll" /\ pc' # "poll") =>
             \/ key' = 113 /\ pc' = "destroy"
             \/ key' # 113 /\ pc' = "capture"]_vars
    /\ [][pc = "destroy" =>
             pc' = "done" /\ presses' = presses /\ trace' = trace /\ iter' = iter]_vars
    /\ [][pc # "done"]_vars

\* C5 witness: the run ended after a poll without the quit key and a later
\* poll with it.
C5_Witness ==
    /\ pc = "done"
    /\ iter >= 2
    /\ windows = "destroyed"

\* C6: a failure raised by a backend is not caught: run() is left at the
\* failing step, the steps completed are exactly those before it, and no
\* further step or iteration follows.
C6_FailureIsFatal ==
    /\ [](failedAt # "none" =>
            /\ pc = "failed"
            /\ IF failedAt = "capture"
               THEN trace \in {<<>>, ExpectedNoJump, ExpectedJump}
               ELSE \E e \in {ExpectedNoJump, ExpectedJump} :
                       /\ IsPrefix(trace, e)
                       /\ Len(trace) < Len(e)
                       /\ e[Len(trace) + 1] = failedAt)
    /\ [][failedAt = "none"]_vars

\* C6 witness: the display failed in a later iteration, after that
\* iteration's jump press.
C6_Witness ==
    /\ failedAt = "show"
    /\ Has(trace, "press")
    /\ iter >= 1

\* C7: no shape with an area below 100 is in the candidate sequence, nor is
\* one ever the nearest obstacle.
C7_NoSmallCandidates ==
    /\ \A i \in 1..Len(con_found) : con_found[i].area >= 100
    /\ \A i \in 1..Len(nearest) : nearest[i].area >= 100

\* C7 witness: the frame held a shape of area 99 that was left out while
\* another shape was kept.
C7_Witness ==
    /\ 99 \in rejected
    /\ con_found # <<>>

\* C8: the steps of an iteration run in the order capture, crop, detect
\* (preprocess, find), decide, press if the condition holds, present
\* (composite, fps, show) and one poll; an iteration starts only after the
\* previous one's poll.
C8_StepOrder ==
    /\ [](IsPrefix(trace, ExpectedNoJump) \/ IsPrefix(trace, ExpectedJump))
    /\ [][(trace' # trace /\ Len(trace') <= Len(trace)) =>
             /\ trace' = <<"capture">>
             /\ trace \in {ExpectedNoJump, ExpectedJump}]_vars

\* C8 witness: a second iteration ran to its poll with a press in it.
C8_Witness ==
    /\ trace = ExpectedJump
    /\ iter >= 2

InWindow(r, c) ==
    /\ r - 1 >= cfg.row_start
    /\ r - 1 < cfg.row_end
    /\ c - 1 >= cfg.col_start

\* C9: after the processed crop is composited into the frame, every pixel
\* outside rows row_start..row_end-1, columns col_start.. is the pixel that
\* was captured.
C9_OutsideUntouched ==
    Has(trace, "composite") =>
        /\ Len(img_game) = Len(captured)
        /\ \A r \in 1..Len(captured) :
              /\ Len(img_game[r]) = Len(captured[r])
              /\ \A c \in 1..Len(captured[r]) :
                    ~InWindow(r, c) => img_game[r][c] = captured[r][c]

\* C9 witness: the composite changed the frame (something was drawn in the
\* crop) and the window leaves rows and columns outside it.
C9_Witness ==
    /\ Has(trace, "composite")
    /\ img_game # captured
    /\ cfg.row_start > 0
    /\ cfg.col_start > 0

\* The sub-grid frame[row_start:row_end, col_start:], cell by cell, with the
\* slice ends clamped to the frame.
ClampedCrop ==
    LET h == Len(captured)
        w == Len(captured[1])
        r0 == Min(cfg.row_start, h)
        c0 == Min(cfg.col_start, w)
    IN  [i \in 1..(Min(cfg.row_end, h) - r0) |->
            [j \in 1..(w - c0) |-> captured[r0 + i][c0 + j]]]

\* C10 as stated: with row_end beyond the frame height or col_start beyond its
\* width the pipeline never goes on to detect and decide.
C10_Original ==
    (/\ captured # <<>>
     /\ \/ cfg.row_end > Len(captured)
        \/ cfg.col_start > Len(captured[1]))
    => ~(Has(trace, "find") \/ Has(trace, "decide"))

\* C10 amended: the crop is the sub-grid with the slice ends clamped to the
\* frame, unvalidated; the pipeline goes on exactly with a non-empty crop,
\* and an empty crop stops the iteration in the preprocessing step.
C10_CropClamped ==
    Has(trace, "crop") =>
        /\ img_crop = ClampedCrop
        /\ Has(trace, "preprocess") => ~Empty(ClampedCrop)
        /\ Empty(ClampedCrop) => pc \in {"preprocess", "failed"}

\* C10 witness: row_end lies beyond the frame height and the decision step
\* ran on the clamped crop.
C10_Witness ==
    /\ Has(trace, "decide")
    /\ cfg.row_end > Len(captured)
    /\ cfg.row_start > 0
    /\ img_crop = ClampedCrop

====
